---- MODULE Spec2Model ----
(***************************************************************************)
(* State-machine model of the touch joystick of src/src/index.ts:          *)
(* the TouchHandler (tracked touch, throttled move handler, listeners)     *)
(* and the parts of Joystick that configure it.                            *)
(*                                                                         *)
(* The DOM is the environment: it delivers touchstart / touchmove /        *)
(* touchend events to the listeners that are registered, runs one handler  *)
(* at a time, and runs a timer callback only when no handler is running.   *)
(* touchstart and touchmove are handled in one step; the nested loops of   *)
(* touchend take one step per iteration.  The state callback a handler     *)
(* calls (Joystick.sync -> stateCb) is user code that takes time, so the    *)
(* clock may advance between the return of handleEventsAndSync and the     *)
(* setTimeout of a throttled moveHandler.  handleEventsAndSync is modelled *)
(* as a method of the TouchHandler (its `this` is the handler).            *)
(*                                                                         *)
(* The renderer's origin (PointPosition) is modelled with its layout       *)
(* watch: resize listeners, debounce timers and the page coordinates they  *)
(* recompute, the reads of its page coordinates, and getPointAngle on the   *)
(* touch points whose direction is a whole number of eighths of a turn.    *)
(* The angle functions of src/src/util.ts are modelled in exact            *)
(* arithmetic, an angle being a whole number of 1/48 of a turn; NaN is a   *)
(* value of its own.  The constructor's options are the directions,        *)
(* throttling and startDisabled options.                                   *)
(***************************************************************************)
EXTENDS Integers, Sequences, FiniteSets, TLC

\* ---------------------------------------------------------------- bounds
MaxId == 2          \* touch identifiers are 1..MaxId
MaxTouches == 3     \* touches listed by one event (changed and target together)
MaxEmit == 4        \* longest recorded list of sync calls of one event
MaxTime == 250      \* the clock of the timed specification stops counting here
MaxCalls == 3       \* throttled move calls recorded by the timed specification
MaxWatch == 1       \* calls of watchLayoutShifting after the constructor's
MaxShift == 1       \* the parent's page offsets are 0..MaxShift
MaxSlices == 8      \* direction counts are 1..MaxSlices (those that divide the turn evenly)

\* ---------------------------------------------------------------- values
undefined == -1
Ids == 1..MaxId
ThrottlingOptions == {undefined, 100, 150}

SeqsUpTo(S, n) == UNION {[1..k -> S] : k \in 0..n}
ChangedLists == SeqsUpTo(Ids, MaxTouches)
EndLists == {ct \in ChangedLists \X ChangedLists : Len(ct[1]) + Len(ct[2]) <= MaxTouches}

Min(a, b) == IF a < b THEN a ELSE b
Max(a, b) == IF a > b THEN a ELSE b

TouchEvent(type, changed, target) ==
    [type |-> type, changedTouches |-> changed, targetTouches |-> target]
NoEvent == TouchEvent("none", <<>>, <<>>)

\* TouchList.item(k), k counted from 0: the touch, or undefined (null)
item(list, k) == IF k >= 0 /\ k < Len(list) THEN list[k + 1] ELSE undefined

\* A listener function: handleEventsAndSync itself, or a moveHandler closure.
HandleEventsAndSyncFn == [fn |-> "handleEventsAndSync", throttled |-> FALSE, delay |-> undefined]
MakeMoveHandler(throttling) ==
    [fn |-> "moveHandler", throttled |-> (throttling # undefined), delay |-> throttling]

VARIABLES
    \* TouchHandler / Joystick fields
    trackingTouch,       \* TouchHandler.trackingTouch: an identifier or undefined
    shouldComputeMove,   \* TouchHandler.shouldComputeMove: the throttle gate is open
    moveHandler,         \* TouchHandler.moveHandler: the current closure
    throttling,          \* Joystick._throttling
    isEnabled,           \* Joystick.isEnabled
    \* environment
    listeners,           \* event type -> set of listener functions on the parent
    timers,              \* pending reopen timers: sequence of ms left
    \* the handler that is running
    pc,                  \* "idle", "handle", "inner", "exit", "done"
    event,               \* the event being handled
    call,                \* the listener that was called and whether it ran the handler
    i,                   \* the loop variable i of handleEventsAndSync
    pre,                 \* trackingTouch when the event was delivered
    emitted,             \* the sync calls made for this event, in order
    seen,                \* the handler's fields as each of these calls finds them
    examined,            \* the indices of changedTouches the touchend loop has examined
    \* observers
    scen, total,         \* position in Script and sync calls made along it
    now, lastExec, calls, \* clock, time of the last executed throttled move, its log
    firstMove,           \* a gesture is in progress and no touchmove carrying its
                         \* touch has been delivered since its touchstart
    down,                \* the touches that are down on the parent (followed by the
                         \* specification whose batches are those of real touches)
    stale,               \* how many pending timers (the first ones of timers) were
                         \* scheduled by a moveHandler that has since been replaced
    \* PointPosition (the renderer's origin) and its environment
    _pageX, _pageY,      \* PointPosition._pageX, _pageY: a number or undefined
    read,                \* the last value a read of origin.pageX or origin.pageY returned
    resizeDbc,           \* PointPosition.resizeDbc: the tuple, or undefined
    resizeListeners,     \* the resize listeners registered on window (closure numbers)
    layoutTimers,        \* pending debounce timers
    watches,             \* closures made by watchLayoutShifting so far
    parentLeft, parentTop, \* rect.left + scrollX, rect.top + scrollY of the parent
    sinceSignal, fired,  \* per closure: ms since its last resize signal, and the
                         \* recomputes its timers made since that signal
    burst,               \* per closure: resize signals of the current burst (each
                         \* arrived while the timer of the one before was pending)
    \* directions and angles
    directionsOption,    \* options.directions the control was constructed with
    directions,          \* Joystick.directions: the slices, in walk order
    tableSlices, tableStart, \* the arguments mapCongruentAngles built them from
    angle, absAngle,     \* an angle given to absoluteAngle, and its result
    classified, members  \* absAngle was tested against the slices; those it is in

vars == <<trackingTouch, shouldComputeMove, moveHandler, throttling, isEnabled,
          listeners, timers, pc, event, call, i, pre, emitted, seen, examined,
          scen, total, now, lastExec, calls, firstMove, down, stale,
          _pageX, _pageY, resizeDbc, resizeListeners, layoutTimers, watches,
          parentLeft, parentTop, sinceSignal, fired, burst, read,
          directionsOption, directions, tableSlices, tableStart, angle, absAngle, classified,
          members>>

angleVars == <<directionsOption, directions, tableSlices, tableStart, angle, absAngle, classified, members>>

\* the origin, its subscriptions and timers, and what is observed of them
originVars == <<_pageX, _pageY, resizeDbc, resizeListeners, watches,
                parentLeft, parentTop, sinceSignal, fired, burst, read>>
layoutVars == <<originVars, layoutTimers>>

handlerVars == <<pc, event, call, i, pre, emitted, seen, examined>>
observers == <<scen, total, now, lastExec, calls>>

\* ------------------------------------------------- TouchHandler conditions
\* touchstart is accepted only when no touch is tracked
startAcceptsAlways(tracking) == TRUE   \* faulty variant: a start is always accepted
startAccepts(tracking) == tracking = undefined

\* a changed touch of a touchmove is computed when it is the tracked touch
moveMatchesAny(touch, tracking) == touch # undefined   \* faulty variant: every changed touch is computed
moveMatches(touch, tracking) == touch # undefined /\ touch = tracking

\* a changed touch of a touchend is the tracked touch lifting
endMatchesAny(touch, tracking) == touch # undefined   \* faulty variant: every lifted touch counts as the tracked one
endMatches(touch, tracking) == touch # undefined /\ touch = tracking

\* a touch of targetTouches takes over the tracking
handoffCandidate(touch, tracking) == touch # undefined

\* the event type the handoff passes to sync
handoffTypeOfEvent(eventType) == eventType   \* faulty variant: the handoff passes on the touchend type
handoffType(eventType) == "touchmove"

\* trackingTouch once the tracked touch lifted with no touch left on the target
liftedTrackingKept(touch) == touch   \* faulty variant: the lifted touch stays tracked
liftedTracking(touch) == undefined

\* the moveHandler closure lets the call through to handleEventsAndSync
gateOpenFlagOnly(h, flag) == flag   \* faulty variant: the unthrottled handler reads the flag too
gateOpen(h, flag) == IF h.throttled THEN flag ELSE TRUE

\* the listener function attachListeners registers for an event type
listenerForGated(type, mh) == mh   \* faulty variant: every event type goes through moveHandler
listenerFor(type, mh) == IF type = "touchmove" THEN mh ELSE HandleEventsAndSyncFn

EventTypes == {"touchstart", "touchmove", "touchend"}

attachListeners(l, mh) == [t \in EventTypes |-> l[t] \cup {listenerFor(t, mh)}]
dettachListenersMoveOnly(l, mh) == [l EXCEPT !["touchmove"] = @ \ {mh}]   \* faulty variant: start and end stay subscribed
dettachListeners(l, mh) == [t \in EventTypes |-> l[t] \ {listenerFor(t, mh)}]

\* the listeners after TouchHandler.set move replaced moveHandler old by new:
\* it detaches and attaches only `if (this.joystick.isEnabled)`
setMoveUnguarded(enabled, l, old, new) == attachListeners(dettachListeners(l, old), new)   \* faulty variant: attaches on a disabled control too
setMove(enabled, l, old, new) ==
    IF enabled THEN attachListeners(dettachListeners(l, old), new) ELSE l

\* the object Joystick.sync passes to the state callback, as the function
\* from its property names to their values: `{} as StateObject`
StateObject(eventType, touch) == [name \in {} |-> undefined]

\* Joystick.sync(eventType, touch) calls the state callback once
sync(log, type, touch) ==
    IF Len(log) < MaxEmit
      THEN Append(log, [type |-> type, id |-> touch, state |-> StateObject(type, touch)])
      ELSE log

\* The fields of the TouchHandler a state callback finds when it runs: the
\* handler assigns them (value `after`) and then calls joystick.sync.
fieldsAtSyncBefore(before, after) == before   \* faulty variant: assigned after the call
fieldsAtSync(before, after) == after
Fields(tracking, gate) == [trackingTouch |-> tracking, shouldComputeMove |-> gate]
see(log, fields) == IF Len(log) < MaxEmit THEN Append(log, fields) ELSE log

\* where control goes when handleEventsAndSync returns to the listener: a
\* throttled moveHandler that ran it goes on to setTimeout
afterHandle(c) == IF c.handler.throttled /\ c.executed THEN "exit" ELSE "done"

\* ------------------------------------------------------------------ util
\* Angles are whole numbers of 1/(2 * Pi) of a turn: Pi stands for Math.PI.
Pi == 24
Turn == 2 * Pi               \* Math.PI * 2
defaultStartAngle == -(Pi \div 2)   \* -0.5 * Math.PI

\* the direction counts whose slice and half slice are whole numbers
SliceCounts == {n \in 1..MaxSlices : Turn % (2 * n) = 0}
BadCounts == {0, -1}                       \* counts smaller than 1
StartAngles == {k * (Pi \div 4) : k \in -8..8}   \* the multiples of Pi / 4 in -Turn..Turn
AngleInputs == (-Turn - 1)..(Turn + 1)

\* the argument `slices`: a number, or an array of keys
JsNumber(n) == [isArray |-> FALSE, value |-> n, items |-> <<>>]
JsArray(items) == [isArray |-> TRUE, value |-> 0, items |-> items]
\* arrays of keys that are not the positions 1, 2, ...
KeyLists == {[k \in 1..n |-> 10 + n - k] : n \in SliceCounts \cup {0}}
TableInputs ==
    {<<JsNumber(n), a>> : n \in SliceCounts \cup BadCounts, a \in StartAngles}
        \cup {<<JsArray(ks), defaultStartAngle>> : ks \in KeyLists}

\* absoluteAngle(angle); Math.abs(angle) is -angle where angle < 0
NaN == -1000   \* stands for the number NaN: no angle or coordinate has this value

absoluteAngle(a) ==
    IF a = NaN THEN NaN       \* NaN < 0 is false and NaN % x is NaN
    ELSE IF a < 0 THEN ((-a) % Turn) * (-1) + Turn
    ELSE a % Turn

CongruentDirection(startAngle, endAngle, key) ==
    [startAngle |-> startAngle, endAngle |-> endAngle, key |-> key]

\* the loop of mapCongruentAngles from index k on (k counted from 0)
\* key = Array.isArray(slices) ? slices[i] : i + 1   (i counts from 0)
sliceKeyPosition(slices, k) == k + 1
sliceKey(slices, k) == IF slices.isArray THEN slices.items[k + 1] ELSE k + 1

RECURSIVE mapFrom(_, _, _, _, _, _)
mapFrom(k, slices, slicesTotal, curAngle, congruentRadiansSlice, dirAngles) ==
    IF k < slicesTotal
      THEN LET endAngle == absoluteAngle(curAngle + congruentRadiansSlice)
               key == sliceKey(slices, k)
           IN  mapFrom(k + 1, slices, slicesTotal, endAngle, congruentRadiansSlice,
                       Append(dirAngles, CongruentDirection(curAngle, endAngle, key)))
      ELSE dirAngles

\* mapCongruentAngles(slices, startAngle).  With slicesTotal < 1 the loop
\* body never runs (the slice width, Infinity or negative, is not used).
mapCongruentAngles(slices, startAngle) ==
    LET slicesTotal == IF slices.isArray THEN Len(slices.items) ELSE slices.value IN
    IF slicesTotal < 1 THEN <<>>
    ELSE LET congruentRadiansSlice == Turn \div slicesTotal IN
         mapFrom(0, slices, slicesTotal,
                 absoluteAngle(startAngle - congruentRadiansSlice \div 2),
                 congruentRadiansSlice, <<>>)

isAngleInSlice(a, dir) == a # NaN /\ a >= dir.startAngle /\ a <= dir.endAngle

\* --------------------------------------------------------- PointPosition
Debouncing == 200   \* watchLayoutShifting(debouncing = 200)
originX == 3        \* PointPosition.x
originY == 4        \* PointPosition.y

\* the closures watchLayoutShifting can have made: the constructor's is 1
Closures == 1..(MaxWatch + 1)

\* the tuple [handler, resizeTimeout]: the closure, and the value the local
\* variable resizeTimeout had when the tuple was built
ResizeDbc(g, resizeTimeout) == [handler |-> g, timeout |-> resizeTimeout]
NoResizeDbc == ResizeDbc(undefined, undefined)

\* a pending debounce timer of closure g; it is `current` while the closure's
\* variable resizeTimeout holds its id
DebounceTimer(g, left) == [owner |-> g, left |-> left, current |-> TRUE]

\* clearTimeout(ref), ref being undefined or the resizeTimeout of closure ref
clearTimeoutNothing(ts, ref) == ts   \* faulty variant: the timer keeps running
clearTimeout(ts, ref) == {tm \in ts : ~(tm.owner = ref /\ tm.current)}

\* resizeTimeout = setTimeout(..., delay) in closure g
setResizeTimeout(ts, g, delay) ==
    {[tm EXCEPT !.current = IF tm.owner = g THEN FALSE ELSE @] : tm \in ts}
        \cup {DebounceTimer(g, delay)}

\* the resize listener of closure g
resizeHandler(ts, g) == setResizeTimeout(clearTimeout(ts, g), g, Debouncing)

\* window dispatches a resize event to the listeners L
RECURSIVE dispatchResize(_, _)
dispatchResize(ts, L) ==
    IF L = {} THEN ts
    ELSE LET g == CHOOSE x \in L : TRUE IN dispatchResize(resizeHandler(ts, g), L \ {g})

\* set pageX / set pageY
setPageX(x, left) == x + left
setPageY(y, top) == y + top

\* get pageX: `if (typeof this._pageX == "number") this.pageX = this.x`
getPageXStore(px, x, left) == IF px # undefined THEN setPageX(x, left) ELSE px
\* get pageY: `if (typeof this._pageY != "number") this.pageY = this.y`
getPageYStore(py, y, top) == IF py = undefined THEN setPageY(y, top) ELSE py
\* `return typeof this._pageX == "number" ? this._pageX : NaN`
numberOrNaN(v) == IF v # undefined THEN v ELSE NaN
Read(axis, value) == [axis |-> axis, value |-> value]
NoRead == Read("none", undefined)

\* a - b on numbers
minus(a, b) == IF a = NaN \/ b = NaN THEN NaN ELSE a - b
\* getAxesDeltas(pointB), with this.pageX and this.pageY already read
getAxesDeltas(thisPageX, thisPageY, pointB) ==
    [x |-> minus(thisPageX, pointB.pageX), y |-> minus(pointB.pageY, thisPageY)]
\* Math.atan2(y, x), on the vectors whose angle is a whole number of Pi / 4
atan2Exact(y, x) == y = NaN \/ x = NaN \/ x = 0 \/ y = 0 \/ y = x \/ y = -x
atan2(y, x) ==
    IF y = NaN \/ x = NaN THEN NaN
    ELSE IF y = 0 THEN (IF x >= 0 THEN 0 ELSE Pi)
    ELSE IF x = 0 THEN (IF y > 0 THEN Pi \div 2 ELSE -(Pi \div 2))
    ELSE IF x > 0 THEN (IF y > 0 THEN Pi \div 4 ELSE -(Pi \div 4))
    ELSE (IF y > 0 THEN 3 * (Pi \div 4) ELSE -3 * (Pi \div 4))
\* the touch points: page coordinates around the origin
TouchPoints == [pageX : (originX - 1)..(originX + MaxShift + 1),
                pageY : (originY - 1)..(originY + MaxShift + 1)]

\* ---------------------------------------------------------------- script
\* The event sequence of the spec's TouchSession example, then a new start.
Script == << TouchEvent("touchstart", <<1>>, <<>>),
             TouchEvent("touchmove", <<1>>, <<>>),
             TouchEvent("touchend", <<1>>, <<2>>),
             TouchEvent("touchend", <<2>>, <<>>),
             TouchEvent("touchstart", <<2>>, <<>>) >>

\* ------------------------------------------------------------------ Init
\* const defaultOptions = Object.create({directions: 8, throttling: 150, ...}):
\* the defaults are properties of the prototype, defaultOptions has no own property
defaultOptions == [directions |-> 8, throttling |-> 150, startDisabled |-> FALSE]
ownProperty(obj, name) == undefined
\* options = { ...defaultOptions, ...options }: own properties only
spreadOptions(o) ==
    [directions |-> IF o.directions # undefined THEN o.directions
                    ELSE ownProperty(defaultOptions, "directions"),
     throttling |-> IF o.throttling # undefined THEN o.throttling
                    ELSE ownProperty(defaultOptions, "throttling"),
     startDisabled |-> o.startDisabled]
DirectionOptions == {undefined, 8}

\* new Joystick(element, stateCallback, o); an option not supplied is undefined
\* (startDisabled: FALSE)
NewJoystick(o) ==
    LET opts == spreadOptions(o) IN
    /\ directionsOption = o.directions
    /\ throttling = opts.throttling
    /\ isEnabled = ~opts.startDisabled
    /\ moveHandler = MakeMoveHandler(throttling)
    /\ trackingTouch = undefined
    /\ shouldComputeMove = TRUE
    /\ listeners = IF isEnabled
                     THEN attachListeners([t \in EventTypes |-> {}], moveHandler)
                     ELSE [t \in EventTypes |-> {}]
    /\ timers = <<>>
    /\ pc = "idle" /\ event = NoEvent /\ i = 0 /\ pre = undefined /\ emitted = <<>>
    /\ seen = <<>> /\ examined = <<>>
    /\ call = [handler |-> HandleEventsAndSyncFn, executed |-> FALSE]
    /\ scen = 0 /\ total = 0 /\ firstMove = FALSE /\ down = {}
    /\ now = 0 /\ lastExec = undefined /\ calls = <<>>
    /\ stale = 0
    \* new Renderer -> new PointPosition(x, y, parent) -> watchLayoutShifting()
    /\ _pageX = undefined /\ _pageY = undefined
    /\ read = NoRead
    /\ watches = 1
    /\ resizeDbc = ResizeDbc(1, undefined)
    /\ resizeListeners = {1}
    /\ layoutTimers = {}
    /\ parentLeft = 0 /\ parentTop = 0
    /\ sinceSignal = [g \in Closures |-> undefined]
    /\ fired = [g \in Closures |-> 0]
    /\ burst = [g \in Closures |-> 0]
    \* this.directions = mapCongruentAngles(options.directions ?? 1)
    /\ tableSlices = JsNumber(IF opts.directions # undefined THEN opts.directions ELSE 1)
    /\ tableStart = defaultStartAngle
    /\ directions = mapCongruentAngles(tableSlices, tableStart)
    /\ angle = 0 /\ absAngle = absoluteAngle(0)
    /\ classified = FALSE /\ members = {}

Init ==
    \E o \in [directions : {undefined}, throttling : ThrottlingOptions,
              startDisabled : BOOLEAN] : NewJoystick(o)

\* --------------------------------------------------------------- actions
\* The parent element receives event e and calls a registered listener h.
\* A throttled moveHandler runs handleEventsAndSync only when the gate is
\* open, and closes the gate before running it.
Deliver(e, timed) ==
    /\ pc = "idle"
    /\ \E h \in listeners[e.type] :
          LET open == gateOpen(h, shouldComputeMove) IN
          /\ event' = e /\ pre' = trackingTouch /\ i' = 0 /\ examined' = <<>>
          /\ call' = [handler |-> h, executed |-> open]
          /\ shouldComputeMove' = IF open /\ h.throttled THEN FALSE ELSE shouldComputeMove
          /\ IF timed /\ h.throttled /\ now < MaxTime
               THEN /\ lastExec' = IF open THEN now ELSE lastExec
                    /\ calls' = IF Len(calls) < MaxCalls
                                  THEN Append(calls, [at |-> now, executed |-> open])
                                  ELSE calls
               ELSE UNCHANGED <<lastExec, calls>>
    /\ UNCHANGED <<moveHandler, throttling, isEnabled, listeners, timers, scen, total, now,
                   stale>>
    /\ UNCHANGED <<layoutVars, angleVars>>

\* handleEventsAndSync, event.type == "touchstart"
handleTouchStart(changed, tracking, log) ==
    LET touch == item(changed, 0) IN
    IF startAccepts(tracking) /\ touch # undefined
      THEN [trackingTouch |-> touch, emitted |-> sync(log, "touchstart", touch)]
      ELSE [trackingTouch |-> tracking, emitted |-> log]

\* handleEventsAndSync, event.type == "touchmove": the loop from index k on
RECURSIVE handleTouchMove(_, _, _, _)
handleTouchMove(changed, k, tracking, log) ==
    IF k < Len(changed)
      THEN LET touch == item(changed, k) IN
           handleTouchMove(changed, k + 1, tracking,
                           IF moveMatches(touch, tracking)
                             THEN sync(log, "touchmove", touch) ELSE log)
      ELSE log

\* a touchstart is delivered and, when its listener runs the handler, handled
TouchStart(changed, timed) ==
    /\ Deliver(TouchEvent("touchstart", changed, <<>>), timed)
    /\ LET r == handleTouchStart(changed, trackingTouch, <<>>) IN
       /\ trackingTouch' = IF call'.executed THEN r.trackingTouch ELSE trackingTouch
       /\ emitted' = IF call'.executed THEN r.emitted ELSE <<>>
       /\ seen' = [k \in 1..Len(emitted') |->
                      Fields(fieldsAtSync(trackingTouch, r.trackingTouch),
                             shouldComputeMove')]
    /\ pc' = afterHandle(call')
    /\ firstMove' = IF trackingTouch' # trackingTouch THEN TRUE ELSE firstMove

\* a touchmove is delivered and, when the gate lets it through, handled
TouchMove(changed, timed) ==
    /\ Deliver(TouchEvent("touchmove", changed, <<>>), timed)
    /\ emitted' = IF call'.executed
                    THEN handleTouchMove(changed, 0, trackingTouch, <<>>)
                    ELSE <<>>
    /\ seen' = [k \in 1..Len(emitted') |->
                   Fields(trackingTouch,
                          fieldsAtSync(shouldComputeMove, shouldComputeMove'))]
    /\ pc' = afterHandle(call')
    /\ UNCHANGED trackingTouch
    /\ firstMove' = (firstMove /\ ~\E k \in 1..Len(changed) : changed[k] = trackingTouch)

\* a touchend is delivered; HandleEnd and Handoff run its loops
TouchEnd(changed, target, timed) ==
    /\ Deliver(TouchEvent("touchend", changed, target), timed)
    /\ emitted' = <<>> /\ seen' = <<>>
    /\ pc' = IF call'.executed THEN "handle" ELSE afterHandle(call')
    /\ UNCHANGED trackingTouch
    /\ UNCHANGED firstMove

\* handleEventsAndSync, event.type == "touchend": one iteration of the loop
\* over changedTouches.  The handoff loop reuses the loop variable i.
HandleEnd ==
    /\ pc = "handle" /\ event.type = "touchend"
    /\ examined' = IF i < Len(event.changedTouches) /\ Len(examined) <= MaxTouches
                      THEN Append(examined, i) ELSE examined
    /\ IF i < Len(event.changedTouches)
         THEN LET touch == item(event.changedTouches, i) IN
              IF endMatches(touch, trackingTouch)
                THEN IF Len(event.targetTouches) # 0
                       THEN /\ i' = 0
                            /\ pc' = "inner"
                            /\ UNCHANGED <<trackingTouch, emitted, seen>>
                       ELSE /\ trackingTouch' = liftedTracking(touch)
                            /\ emitted' = sync(emitted, event.type, touch)
                            /\ seen' = see(seen, Fields(fieldsAtSync(trackingTouch,
                                                                     trackingTouch'),
                                                        shouldComputeMove))
                            /\ i' = i + 1
                            /\ UNCHANGED pc
                ELSE /\ i' = i + 1
                     /\ UNCHANGED <<trackingTouch, emitted, seen, pc>>
         ELSE /\ pc' = afterHandle(call)
              /\ UNCHANGED <<trackingTouch, emitted, seen, i>>
    /\ UNCHANGED <<shouldComputeMove, moveHandler, throttling, isEnabled, listeners,
                   timers, event, call, pre, observers, stale>>
    /\ UNCHANGED <<layoutVars, angleVars>>
    /\ firstMove' = (firstMove /\ trackingTouch' # undefined)
    /\ UNCHANGED down

\* the handoff loop over targetTouches: one iteration, or its exit followed
\* by the i++ of the loop over changedTouches
Handoff ==
    /\ pc = "inner"
    /\ IF i < Len(event.targetTouches)
         THEN LET touch == item(event.targetTouches, i) IN
              /\ IF handoffCandidate(touch, trackingTouch)
                   THEN /\ trackingTouch' = touch
                        /\ emitted' = sync(emitted, handoffType(event.type), touch)
                        /\ seen' = see(seen, Fields(fieldsAtSync(trackingTouch,
                                                                 trackingTouch'),
                                                    shouldComputeMove))
                   ELSE UNCHANGED <<trackingTouch, emitted, seen>>
              /\ i' = i + 1
              /\ UNCHANGED pc
         ELSE /\ i' = i + 1
              /\ pc' = "handle"
              /\ UNCHANGED <<trackingTouch, emitted, seen>>
    /\ UNCHANGED <<shouldComputeMove, moveHandler, throttling, isEnabled, listeners,
                   timers, event, call, pre, observers, stale>>
    /\ UNCHANGED <<layoutVars, angleVars>>
    /\ UNCHANGED firstMove
    /\ UNCHANGED down
    /\ UNCHANGED examined

\* the throttled moveHandler, after handleEventsAndSync returned:
\* setTimeout(() => (this.shouldComputeMove = true), throttling)
ScheduleReopen ==
    /\ pc = "exit"
    /\ timers' = Append(timers, call.handler.delay)
    /\ pc' = "done"
    /\ UNCHANGED <<trackingTouch, shouldComputeMove, moveHandler, throttling, isEnabled,
                   listeners, event, call, i, pre, emitted, seen, examined, observers,
                   stale>>
    /\ UNCHANGED <<layoutVars, angleVars>>
    /\ UNCHANGED firstMove
    /\ UNCHANGED down

\* the listener returns to the event loop
Return ==
    /\ pc = "done"
    /\ pc' = "idle" /\ event' = NoEvent /\ i' = 0 /\ pre' = undefined /\ emitted' = <<>>
    /\ seen' = <<>> /\ examined' = <<>>
    /\ call' = [handler |-> HandleEventsAndSyncFn, executed |-> FALSE]
    /\ scen' = IF scen >= 0 /\ scen < Len(Script) /\ event = Script[scen + 1]
                 THEN scen + 1 ELSE -1
    /\ total' = IF scen' >= 0 THEN total + Len(emitted) ELSE 0
    /\ UNCHANGED <<trackingTouch, shouldComputeMove, moveHandler, throttling, isEnabled,
                   listeners, timers, now, lastExec, calls, stale>>
    /\ UNCHANGED <<layoutVars, angleVars>>
    /\ UNCHANGED firstMove
    /\ UNCHANGED down

\* a reopen timer fires: () => (this.shouldComputeMove = true)
ReopenGate(k) ==
    /\ pc = "idle"
    /\ k \in 1..Len(timers) /\ timers[k] = 0
    /\ shouldComputeMove' = TRUE
    /\ timers' = SubSeq(timers, 1, k - 1) \o SubSeq(timers, k + 1, Len(timers))
    /\ stale' = IF k <= stale THEN stale - 1 ELSE stale
    /\ UNCHANGED <<trackingTouch, moveHandler, throttling, isEnabled, listeners,
                   handlerVars, observers>>
    /\ UNCHANGED <<layoutVars, angleVars>>
    /\ UNCHANGED firstMove
    /\ UNCHANGED down

\* Time d passes: between two events, or while the throttled moveHandler runs
\* handleEventsAndSync (the state callback is user code and takes time), which
\* is before it calls setTimeout.  Between events a timer that is due fires
\* before more time passes.
Tick(d, timed) ==
    /\ d > 0
    /\ pc \in {"idle", "exit"}
    /\ pc = "idle" => /\ \A k \in 1..Len(timers) : timers[k] > 0
                      /\ \A tm \in layoutTimers : tm.left > 0
    /\ timers' = [k \in 1..Len(timers) |-> Max(0, timers[k] - d)]
    /\ layoutTimers' = {[tm EXCEPT !.left = Max(0, @ - d)] : tm \in layoutTimers}
    /\ sinceSignal' = [g \in Closures |->
                          IF sinceSignal[g] = undefined THEN undefined
                          ELSE Min(sinceSignal[g] + d, Debouncing + d)]
    /\ now' = IF timed THEN Min(now + d, MaxTime) ELSE now
    /\ UNCHANGED <<trackingTouch, shouldComputeMove, moveHandler, throttling, isEnabled,
                   listeners, handlerVars, scen, total, lastExec, calls, firstMove, down,
                   stale,
                   _pageX, _pageY, resizeDbc, resizeListeners, watches,
                   parentLeft, parentTop, fired, burst, read, angleVars>>

\* the instants at which a pending timer becomes due
Deadlines == {timers[k] : k \in 1..Len(timers)}

\* Joystick.enable()
Enable ==
    /\ pc = "idle"
    /\ trackingTouch' = undefined
    /\ listeners' = attachListeners(listeners, moveHandler)
    /\ isEnabled' = TRUE
    /\ scen' = -1 /\ total' = 0
    /\ UNCHANGED <<shouldComputeMove, moveHandler, throttling, timers, handlerVars,
                   now, lastExec, calls, stale>>
    /\ UNCHANGED <<layoutVars, angleVars>>
    /\ firstMove' = (firstMove /\ trackingTouch' # undefined)
    /\ UNCHANGED down

\* Joystick.disable()
Disable ==
    /\ pc = "idle"
    /\ listeners' = dettachListeners(listeners, moveHandler)
    /\ isEnabled' = FALSE
    /\ scen' = -1 /\ total' = 0
    /\ UNCHANGED <<trackingTouch, shouldComputeMove, moveHandler, throttling, timers,
                   handlerVars, now, lastExec, calls, stale>>
    /\ UNCHANGED <<layoutVars, angleVars>>
    /\ UNCHANGED firstMove
    /\ UNCHANGED down

\* joystick.throttling = t: Joystick.set throttling, then TouchHandler.set move
SetThrottling(t) ==
    /\ pc = "idle"
    /\ throttling' = t
    /\ moveHandler' = MakeMoveHandler(t)
    /\ listeners' = setMove(isEnabled, listeners, moveHandler, moveHandler')
    /\ trackingTouch' = IF isEnabled THEN undefined ELSE trackingTouch
    /\ scen' = -1 /\ total' = 0
    /\ stale' = Len(timers)
    /\ UNCHANGED <<shouldComputeMove, isEnabled, timers, handlerVars, now, lastExec, calls>>
    /\ UNCHANGED <<layoutVars, angleVars>>
    /\ firstMove' = (firstMove /\ trackingTouch' # undefined)
    /\ UNCHANGED down

Handle == HandleEnd \/ Handoff \/ ScheduleReopen \/ Return

Next ==
    \/ \E c \in ChangedLists : TouchStart(c, FALSE) /\ UNCHANGED down
    \/ \E c \in ChangedLists : TouchMove(c, FALSE) /\ UNCHANGED down
    \/ \E ct \in EndLists : TouchEnd(ct[1], ct[2], FALSE) /\ UNCHANGED down
    \/ Handle
    \/ \E k \in 1..Len(timers) : ReopenGate(k)
    \/ \E d \in Deadlines : Tick(d, FALSE)
    \/ Enable
    \/ Disable
    \/ \E t \in ThrottlingOptions : SetThrottling(t)

Spec == Init /\ [][Next]_vars

\* The timed specification: a control whose interval is not re-configured, a
\* clock that advances 50 ms at a time, and events that list at most one touch.
GateLists == SeqsUpTo(Ids, 1)

NextGate ==
    \/ \E c \in GateLists : TouchStart(c, TRUE) /\ UNCHANGED down
    \/ \E c \in GateLists : TouchMove(c, TRUE) /\ UNCHANGED down
    \/ \E c \in GateLists, t \in GateLists : TouchEnd(c, t, TRUE) /\ UNCHANGED down
    \/ Handle
    \/ \E k \in 1..Len(timers) : ReopenGate(k)
    \/ Tick(50, TRUE)

SpecGate == Init /\ [][NextGate]_vars

\* The batches of real touches on an enabled control: a touch that starts is
\* not down yet, a touch that moves or ends is down, no touch is listed
\* twice, and the targetTouches of a touchend are the touches that stay down.
touches(q) == {q[k] : k \in 1..Len(q)}
Batches == {c \in ChangedLists : c # <<>> /\ Cardinality(touches(c)) = Len(c)}

StartBatch(c) ==
    /\ touches(c) \cap down = {}
    /\ TouchStart(c, FALSE)
    /\ down' = down \cup touches(c)

MoveBatch(c) ==
    /\ touches(c) \subseteq down
    /\ TouchMove(c, FALSE)
    /\ UNCHANGED down

EndBatch(c, target) ==
    /\ touches(c) \subseteq down
    /\ Cardinality(touches(target)) = Len(target)
    /\ touches(target) = down \ touches(c)
    /\ TouchEnd(c, target, FALSE)
    /\ down' = down \ touches(c)

NextSession ==
    \/ \E c \in Batches : StartBatch(c)
    \/ \E c \in Batches : MoveBatch(c)
    \/ \E c \in Batches, target \in ChangedLists : EndBatch(c, target)
    \/ Handle
    \/ \E k \in 1..Len(timers) : ReopenGate(k)
    \/ \E d \in Deadlines : Tick(d, FALSE)

InitSession ==
    \E o \in [directions : {undefined}, throttling : ThrottlingOptions,
              startDisabled : {FALSE}] : NewJoystick(o)

SpecSession == InitSession /\ [][NextSession]_vars

\* ------------------------------------------------- PointPosition actions
touchVars == <<trackingTouch, shouldComputeMove, moveHandler, throttling, isEnabled,
               listeners, timers, handlerVars, observers, firstMove, down, stale>>

\* origin.watchLayoutShifting()
WatchLayoutShifting ==
    /\ pc = "idle" /\ watches <= MaxWatch
    /\ watches' = watches + 1
    /\ resizeDbc' = ResizeDbc(watches', undefined)
    /\ resizeListeners' = resizeListeners \cup {resizeDbc'.handler}
    /\ UNCHANGED <<_pageX, _pageY, layoutTimers, parentLeft, parentTop, sinceSignal,
                   fired, burst, read, touchVars, angleVars>>

\* origin.ignoreLayoutShifting()
IgnoreLayoutShifting ==
    /\ pc = "idle"
    /\ IF resizeDbc # NoResizeDbc
         THEN /\ resizeListeners' = resizeListeners \ {resizeDbc.handler}
              /\ layoutTimers' = clearTimeout(layoutTimers, resizeDbc.timeout)
              /\ resizeDbc' = NoResizeDbc
         ELSE UNCHANGED <<resizeListeners, layoutTimers, resizeDbc>>
    /\ UNCHANGED <<_pageX, _pageY, watches, parentLeft, parentTop, sinceSignal, fired,
                   burst, read, touchVars, angleVars>>

\* the window is resized: every registered resize listener runs
Resize ==
    /\ pc = "idle"
    /\ layoutTimers' = dispatchResize(layoutTimers, resizeListeners)
    /\ sinceSignal' = [g \in Closures |-> IF g \in resizeListeners THEN 0 ELSE sinceSignal[g]]
    /\ fired' = [g \in Closures |-> IF g \in resizeListeners THEN 0 ELSE fired[g]]
    /\ burst' = [g \in Closures |->
                    IF g \notin resizeListeners THEN burst[g]
                    ELSE IF \E tm \in layoutTimers : tm.owner = g
                           THEN Min(burst[g] + 1, 2) ELSE 1]
    /\ UNCHANGED <<_pageX, _pageY, resizeDbc, resizeListeners, watches, parentLeft,
                   parentTop, read, touchVars, angleVars>>

\* a debounce timer fires: this.pageX = this.x; this.pageY = this.y
ResizeTimeout(tm) ==
    /\ pc = "idle"
    /\ tm \in layoutTimers /\ tm.left = 0
    /\ _pageX' = setPageX(originX, parentLeft)
    /\ _pageY' = setPageY(originY, parentTop)
    /\ layoutTimers' = layoutTimers \ {tm}
    /\ fired' = [fired EXCEPT ![tm.owner] = Min(@ + 1, 2)]
    /\ UNCHANGED <<resizeDbc, resizeListeners, watches, parentLeft, parentTop,
                   sinceSignal, burst, read, touchVars, angleVars>>

\* the layout shifts: the parent's page offsets change
LayoutShift(left, top) ==
    /\ pc = "idle"
    /\ <<left, top>> # <<parentLeft, parentTop>>
    /\ parentLeft' = left /\ parentTop' = top
    /\ UNCHANGED <<_pageX, _pageY, resizeDbc, resizeListeners, layoutTimers, watches,
                   sinceSignal, fired, burst, read, touchVars, angleVars>>

\* The origin alone: its layout watch, resize signals, layout shifts and a
\* clock of 50 ms steps.
NextLayout ==
    \/ WatchLayoutShifting
    \/ IgnoreLayoutShifting
    \/ Resize
    \/ \E tm \in layoutTimers : ResizeTimeout(tm)
    \/ \E l \in 0..MaxShift, t \in 0..MaxShift : LayoutShift(l, t)
    \/ Tick(50, FALSE)

\* the control's own configuration plays no part here and is kept fixed
InitLayout == Init /\ throttling = undefined /\ isEnabled

SpecLayout == InitLayout /\ [][NextLayout]_vars

\* The control together with its origin: touchmoves through the moveHandler,
\* the reopen timer, enabling and disabling, and the origin as above.
NextTeardown ==
    \/ TouchMove(<<1>>, FALSE) /\ UNCHANGED down
    \/ ScheduleReopen
    \/ Return
    \/ \E k \in 1..Len(timers) : ReopenGate(k)
    \/ Enable
    \/ Disable
    \/ NextLayout

SpecTeardown == Init /\ [][NextTeardown]_vars

\* ---------------------------------------------------------- angle actions
controlVars == <<touchVars, layoutVars>>

\* origin.pageX is read
ReadPageX ==
    /\ pc = "idle"
    /\ _pageX' = getPageXStore(_pageX, originX, parentLeft)
    /\ read' = Read("pageX", numberOrNaN(_pageX'))
    /\ UNCHANGED <<_pageY, resizeDbc, resizeListeners, layoutTimers, watches, parentLeft,
                   parentTop, sinceSignal, fired, burst, touchVars, angleVars>>

\* origin.pageY is read
ReadPageY ==
    /\ pc = "idle"
    /\ _pageY' = getPageYStore(_pageY, originY, parentTop)
    /\ read' = Read("pageY", numberOrNaN(_pageY'))
    /\ UNCHANGED <<_pageX, resizeDbc, resizeListeners, layoutTimers, watches, parentLeft,
                   parentTop, sinceSignal, fired, burst, touchVars, angleVars>>

\* origin.getPointAngle(point): both getters are read by getAxesDeltas
GetPointAngle(point) ==
    LET px == getPageXStore(_pageX, originX, parentLeft)
        py == getPageYStore(_pageY, originY, parentTop)
        d == getAxesDeltas(numberOrNaN(px), numberOrNaN(py), point)
    IN  /\ pc = "idle"
        /\ atan2Exact(d.y, d.x)
        /\ _pageX' = px /\ _pageY' = py
        /\ angle' = atan2(d.y, d.x)
        /\ absAngle' = absoluteAngle(angle')
        /\ classified' = FALSE /\ members' = {}
        /\ UNCHANGED <<resizeDbc, resizeListeners, layoutTimers, watches, parentLeft,
                       parentTop, sinceSignal, fired, burst, read, touchVars,
                       directionsOption, directions, tableSlices, tableStart>>

\* this.directions = mapCongruentAngles(slices, startAngle)
SetDirections(slices, startAngle) ==
    /\ tableSlices' = slices /\ tableStart' = startAngle
    /\ directions' = mapCongruentAngles(slices, startAngle)
    /\ classified' = FALSE /\ members' = {}
    /\ UNCHANGED <<directionsOption, angle, absAngle, controlVars>>

\* an angle is made absolute, as getPointAngle does with atan2's result
AbsoluteAngle(a) ==
    /\ angle' = a
    /\ absAngle' = absoluteAngle(a)
    /\ classified' = FALSE /\ members' = {}
    /\ UNCHANGED <<directionsOption, directions, tableSlices, tableStart, controlVars>>

\* the absolute angle is tested against every slice with isAngleInSlice
TestSlices ==
    /\ ~classified
    /\ classified' = TRUE
    /\ members' = {k \in 1..Len(directions) : isAngleInSlice(absAngle, directions[k])}
    /\ UNCHANGED <<directionsOption, directions, tableSlices, tableStart, angle, absAngle,
                   controlVars>>

NextAngles ==
    \/ \E in \in TableInputs : SetDirections(in[1], in[2])
    \/ \E a \in AngleInputs : AbsoluteAngle(a)
    \/ TestSlices

SpecAngles == InitLayout /\ [][NextAngles]_vars

\* The origin as a reference point: resize signals with their debounce timer
\* (a clock of Debouncing steps), layout shifts, reads of the page
\* coordinates, angles of touch points and their membership in the
\* control's table.
NextOrigin ==
    \/ Resize
    \/ \E tm \in layoutTimers : ResizeTimeout(tm)
    \/ \E l \in 0..MaxShift, t \in 0..MaxShift : LayoutShift(l, t)
    \/ Tick(Debouncing, FALSE)
    \/ ReadPageX
    \/ ReadPageY
    \/ \E p \in TouchPoints : GetPointAngle(p)
    \/ TestSlices

\* a control with its directions option not supplied, or 8
InitOrigin ==
    \E o \in [directions : DirectionOptions, throttling : {undefined},
              startDisabled : {FALSE}] : NewJoystick(o)

SpecOrigin == InitOrigin /\ [][NextOrigin]_vars

\* ======================================================== claims C1..C10
Emission(type, id) == [type |-> type, id |-> id, state |-> StateObject(type, id)]
Range(q) == {q[k] : k \in 1..Len(q)}
Last(q) == q[Len(q)]

\* the event being handled lifts the touch that was tracked when it arrived
LiftsTracked == event.type = "touchend" /\ pre # undefined /\ pre \in Range(event.changedTouches)

\* one move-type trigger for each touch of list q, in order
MovesFor(q) == [k \in 1..Len(q) |-> Emission("touchmove", q[k])]

C3_HandoffExcludesLifted ==
    (event.type = "touchend" /\ pre # undefined)
        => \A k \in 1..Len(emitted) :
              emitted[k].type = "touchmove" => emitted[k].id # pre

\* C4: a touchstart that arrives while a touch is tracked changes nothing:
\* the tracked identifier is kept and nothing is emitted.
C4_StartWhileTracking ==
    (event.type = "touchstart" /\ pre # undefined)
        => (trackingTouch = pre /\ emitted = <<>>)

\* C4 witness: a start listing another touch was ignored while touch 1 was tracked
C4_Witness ==
    /\ pc = "done" /\ event.type = "touchstart" /\ pre = 1
    /\ event.changedTouches = <<2, 1>> /\ trackingTouch = 1 /\ emitted = <<>>

C6_MoveFiltering ==
    (event.type = "touchmove" /\ call.executed)
        => /\ trackingTouch = pre
           /\ emitted = MovesFor(SelectSeq(event.changedTouches, LAMBDA t : t = pre))

\* C6 witness: of three changed touches the two tracked ones were emitted
C6_Witness ==
    /\ pc = "done" /\ event.type = "touchmove" /\ call.executed /\ pre = 1
    /\ event.changedTouches = <<1, 2, 1>>
    /\ emitted = <<Emission("touchmove", 1), Emission("touchmove", 1)>>

\* C7: a touchend that lists no touch with the tracked identifier has no
\* effect, at any point of its processing: the tracked identifier is kept and
\* nothing is emitted, whether or not touches remain on the target.
C7_EndUntracked ==
    (event.type = "touchend" /\ pre \notin Range(event.changedTouches))
        => (trackingTouch = pre /\ emitted = <<>>)

\* C7 witness: touch 2 ended, with touch 1 tracked and a touch remaining
C7_Witness ==
    /\ pc = "done" /\ event = TouchEvent("touchend", <<2>>, <<2>>)
    /\ pre = 1 /\ trackingTouch = 1 /\ emitted = <<>>

\* C8: Throttle gate with interval T.  The gate starts open; a move call made
\* while it is open is executed and closes it, and the reopen timer it leaves
\* behind is due T after that call; a move call made while it is closed is
\* dropped and changes nothing; executed calls are at least T apart; calls at
\* 0, 50 and 200 ms with T = 150 are executed, dropped, executed.
C8_ThrottleGate ==
    /\ (now < MaxTime /\ calls = <<>>) => shouldComputeMove
    /\ (pc = "done" /\ call.handler.throttled /\ call.executed /\ now < MaxTime)
          => /\ ~shouldComputeMove
             /\ timers # <<>>
             /\ Last(timers) = Max(0, call.handler.delay - (now - lastExec))
    /\ (pc = "done" /\ call.handler.throttled /\ ~call.executed)
          => (emitted = <<>> /\ trackingTouch = pre /\ ~shouldComputeMove)
    /\ \A j, k \in 1..Len(calls) :
          (j < k /\ calls[j].executed /\ calls[k].executed)
              => calls[k].at - calls[j].at >= throttling
    /\ (throttling = 150 /\ Len(calls) = 3
          /\ calls[1].at = 0 /\ calls[2].at = 50 /\ calls[3].at = 200)
          => (calls[1].executed /\ ~calls[2].executed /\ calls[3].executed)

C10_NoIntervalNoDrop ==
    (event.type = "touchmove" /\ throttling = undefined)
        => /\ call.executed
           /\ emitted = MovesFor(SelectSeq(event.changedTouches, LAMBDA t : t = pre))

\* C10 witness: a move was processed with the flag of an earlier gate still closed
C10_Witness ==
    /\ pc = "done" /\ event.type = "touchmove" /\ throttling = undefined
    /\ ~shouldComputeMove /\ timers # <<>>
    /\ call.executed /\ emitted # <<>>

\* ======================================================= claims C11..C20
\* C11: Re-configuring the interval.  The gate used after joystick.throttling
\* is set to a number starts open; a touchmove that arrives while no reopen
\* timer scheduled by the current moveHandler is pending is executed; and a
\* reopen timer scheduled by a replaced moveHandler does not change the flag
\* the current moveHandler reads.
C11_Reconfigure ==
    [][ /\ (\E t \in ThrottlingOptions \ {undefined} : SetThrottling(t))
              => shouldComputeMove'
        /\ (pc = "idle" /\ pc' # "idle" /\ event'.type = "touchmove"
              /\ call'.handler.throttled /\ Len(timers) = stale)
              => call'.executed
        /\ \A k \in 1..Len(timers) :
              (ReopenGate(k) /\ k <= stale /\ moveHandler.throttled)
                  => shouldComputeMove' = shouldComputeMove ]_vars

\* C12: while the control is disabled no touch listener of any type is
\* registered on the parent, no handler is running and nothing is emitted,
\* whatever the interval and however often the moveHandler was replaced.
C12_DisabledSilent ==
    ~isEnabled => /\ \A t \in EventTypes : listeners[t] = {}
                  /\ pc = "idle" /\ emitted = <<>>

\* C12 witness: disabled after a move was executed and the moveHandler replaced
C12_Witness ==
    /\ ~isEnabled /\ pc = "idle" /\ stale > 0 /\ ~shouldComputeMove
    /\ moveHandler.throttled /\ \A t \in EventTypes : listeners[t] = {}

\* C13: timers after teardown.  A reopen timer that fires while the control is
\* disabled leaves shouldComputeMove as it was, and a debounce timer that
\* fires after its resize listener was unsubscribed leaves _pageX and _pageY
\* as they were (a timer that was cancelled does not fire at all).
C13_TimersAfterTeardown ==
    [][ /\ \A k \in 1..Len(timers) :
              (ReopenGate(k) /\ ~isEnabled) => shouldComputeMove' = shouldComputeMove
        /\ \A tm \in layoutTimers :
              (ResizeTimeout(tm) /\ tm.owner \notin resizeListeners)
                  => (_pageX' = _pageX /\ _pageY' = _pageY) ]_vars

C15_Unsubscribe ==
    [][ /\ IgnoreLayoutShifting => (layoutTimers' = {} /\ resizeListeners' = {})
        /\ (IgnoreLayoutShifting /\ resizeDbc = NoResizeDbc) => UNCHANGED vars
        /\ \A tm \in layoutTimers : ResizeTimeout(tm) => resizeDbc # NoResizeDbc ]_vars

\* the slice boundaries of the table, as positions on the circle
Boundaries == {directions[k].startAngle % Turn : k \in 1..Len(directions)}
                  \cup {directions[k].endAngle % Turn : k \in 1..Len(directions)}

\* C16: Slice coverage.  A normalized angle that is on no slice boundary is
\* a member of exactly one slice of the table, for every table built
\* (wrap-around slice and one-slice table included).
C16_SliceCoverage ==
    (classified /\ directions # <<>>
        /\ absAngle \in 0..(Turn - 1) /\ absAngle \notin Boundaries)
        => Cardinality(members) = 1

\* C17: Wrap-around membership.  A normalized angle is a member of a slice
\* stored with startAngle > endAngle exactly when it is >= startAngle or
\* <= endAngle, and of any other slice exactly when it lies between the two.
C17_WrapMembership ==
    (classified /\ absAngle \in 0..(Turn - 1))
        => \A k \in 1..Len(directions) :
              LET dir == directions[k] IN
              (k \in members) <=>
                  IF dir.startAngle > dir.endAngle
                    THEN absAngle >= dir.startAngle \/ absAngle <= dir.endAngle
                    ELSE dir.startAngle <= absAngle /\ absAngle <= dir.endAngle

\* C18: the absolute angle lies in [0, 2 * Pi): it is never negative and
\* never a full turn, and a whole number of turns, positive or negative, gives 0.
C18_NormalizeRange ==
    /\ absAngle >= 0 /\ absAngle < Turn
    /\ angle % Turn = 0 => absAngle = 0

\* C19: absoluteAngle is periodic: adding k full turns, k in -3..3, to the
\* angle gives the same absolute angle.
C19_NormalizePeriodic ==
    \A k \in -3..3 : absoluteAngle(angle + Turn * k) = absAngle

\* C20: Boundary tie-break.  An angle that is the endAngle of one slice and
\* the startAngle of the next slice in walk order is a member of the former
\* and not of the latter.
C20_BoundaryTieBreak ==
    (classified /\ Len(directions) >= 2)
        => \A k \in 1..Len(directions) :
              LET next == (k % Len(directions)) + 1 IN
              (absAngle = directions[k].endAngle /\ absAngle = directions[next].startAngle)
                  => (k \in members /\ next \notin members)

\* the slice count the table was asked for: the number, or the number of keys
SliceCount == IF tableSlices.isArray THEN Len(tableSlices.items) ELSE tableSlices.value

\* C21: Table structure.  A table built for N >= 1 has exactly N slices,
\* every stored boundary lies in [0, 2 * Pi), each endAngle is the next
\* slice's startAngle and the last endAngle the first startAngle, every
\* slice is 2 * Pi / N wide (modulo a turn), and the first slice is centred
\* on the start angle.
C21_TableStructure ==
    SliceCount >= 1 =>
        LET N == SliceCount
            width == Turn \div N
        IN  /\ Len(directions) = N
            /\ \A k \in 1..Len(directions) :
                  /\ directions[k].startAngle \in 0..(Turn - 1)
                  /\ directions[k].endAngle \in 0..(Turn - 1)
                  /\ directions[k].endAngle
                        = directions[(k % Len(directions)) + 1].startAngle
                  /\ (directions[k].endAngle - directions[k].startAngle) % Turn
                        = width % Turn
            /\ (directions[1].startAngle + width \div 2 - tableStart) % Turn = 0

\* C22: no table is built from a slice count smaller than 1: construction
\* fails, so no control holds such a table, and never an empty one.
C22_InvalidConfiguration ==
    SliceCount >= 1 /\ directions # <<>>

\* C27: Keys.  Built from an array of keys the table has as many slices as
\* keys and slice i carries the i-th key; built from a count N the slices
\* carry the keys 1, 2, ..., N in walk order.
C27_Keys ==
    IF tableSlices.isArray
      THEN /\ Len(directions) = Len(tableSlices.items)
           /\ \A k \in 1..Len(directions) : directions[k].key = tableSlices.items[k]
      ELSE /\ tableSlices.value >= 1 => Len(directions) = tableSlices.value
           /\ \A k \in 1..Len(directions) : directions[k].key = k

C27_Witness ==
    /\ tableSlices.isArray /\ Len(directions) >= 2
    /\ directions[2].key = tableSlices.items[2] /\ directions[2].key # 2

\* the origin's page position, from the parent's current page offset
OriginPageX == originX + parentLeft
OriginPageY == originY + parentTop
\* the keys of the slices of the table the angle a is a member of
KeysOf(a) == {directions[k].key : k \in {j \in 1..Len(directions) :
                                            isAngleInSlice(a, directions[j])}}

\* C23: Angle orientation.  With the origin's page coordinates read right,
\* the angle getPointAngle gives a touch point P is the normalized angle of
\* the vector (P.x - O.x, O.y - P.y): a point right of and above the origin
\* by the same amount gets Pi / 4.
C23_Orientation ==
    [][\A p \in TouchPoints :
          ( /\ GetPointAngle(p)
            /\ _pageX' = OriginPageX /\ _pageY' = OriginPageY
            /\ atan2Exact(OriginPageY - p.pageY, p.pageX - OriginPageX) )
          => absAngle' = absoluteAngle(atan2(OriginPageY - p.pageY, p.pageX - OriginPageX))
      ]_vars

\* C24: End to end.  With the table of 8 directions and start angle -Pi / 2
\* the angle of a touch directly above the origin (same page x, smaller
\* page y) is a member of the slice with key 1 and of no other slice.
C24_EndToEnd ==
    [][\A p \in TouchPoints :
          ( /\ GetPointAngle(p)
            /\ tableSlices = JsNumber(8) /\ tableStart = defaultStartAngle
            /\ p.pageX = OriginPageX /\ p.pageY < OriginPageY )
          => KeysOf(absAngle') = {1}
      ]_vars

\* C29: Lazy origin coordinates.  Every read of origin.pageX and of
\* origin.pageY, the first one included, returns the parent's current page
\* offset plus the origin's local coordinate.
C29_LazyOrigin ==
    [][ /\ ReadPageX => read'.value = OriginPageX
        /\ ReadPageY => read'.value = OriginPageY ]_vars

\* C26: Defaults.  A control constructed without a directions option has 8
\* directions and one constructed without a throttling option a throttle
\* interval of 150 ms; a supplied option replaces the default of its own
\* name only.  (No control of SpecOrigin is given a throttling option, or
\* has its interval set later.)
C26_Defaults ==
    /\ Len(directions) = IF directionsOption # undefined THEN directionsOption
                         ELSE defaultOptions.directions
    /\ throttling = defaultOptions.throttling

\* C25: Snapshot contents.  The callback of every trigger other than a
\* gesture end receives a snapshot with isActive = true, the angle with its
\* cos and sin, and as direction the key of the slice the angle is in; the
\* callback of a gesture end receives isActive = false and nothing else.
C25_Snapshot ==
    \A k \in 1..Len(emitted) :
        LET state == emitted[k].state IN
        IF emitted[k].type = "touchend"
          THEN DOMAIN state = {"isActive"} /\ state["isActive"] = FALSE
          ELSE /\ DOMAIN state = {"isActive", "direction", "angle", "cos", "sin"}
               /\ state["isActive"] = TRUE
               /\ state["direction"] \in KeysOf(state["angle"])

C30_FirstMove ==
    [][ ( /\ firstMove /\ pc = "idle"
          /\ event'.type = "touchmove" /\ call'.handler.throttled
          /\ \E k \in 1..Len(event'.changedTouches) :
                event'.changedTouches[k] = trackingTouch )
        => ( /\ call'.executed
             /\ Emission("touchmove", trackingTouch) \in Range(emitted') )
      ]_vars

\* C31: session filtering precedes throttling.  A touchmove that carries no
\* touch with the tracked identifier (one delivered while Idle included)
\* leaves the gate as it was and leads to no reopen timer.
C31_FilterBeforeGate ==
    [][ ( /\ pc = "idle" /\ event'.type = "touchmove"
          /\ ~\E k \in 1..Len(event'.changedTouches) :
                 event'.changedTouches[k] = trackingTouch )
        => ( shouldComputeMove' = shouldComputeMove /\ pc' # "exit" )
      ]_vars

\* C32: whenever no handler is running, the tracked identifier is undefined
\* or the identifier of a touch that is down on the parent, for every
\* sequence of batches of real touches (a touch that ended is not among the
\* touches that remain): a lifted touch is never kept tracked.
C32_TrackedIsDown ==
    pc \in {"idle", "done"} => (trackingTouch = undefined \/ trackingTouch \in down)

\* C32 witness: the tracked touch 1 lifted while touch 2 stayed down
C32_Witness ==
    /\ pc = "done" /\ event = TouchEvent("touchend", <<1>>, <<2>>)
    /\ pre = 1 /\ trackingTouch = 2 /\ down = {2}

\* C33: the loop of a touchend over changedTouches examines every changed
\* touch exactly once, in order, whatever the targetTouches: when the
\* handler is done the indices examined are 0, 1, ..., length - 1, the
\* handoff loop having made it neither skip nor revisit an entry.
C33_EndLoop ==
    (pc = "done" /\ event.type = "touchend" /\ call.executed)
        => examined = [k \in 1..Len(event.changedTouches) |-> k - 1]

\* C34: setting joystick.throttling while a touch is tracked keeps the
\* gesture: the step leaves trackingTouch as it was, so that later moves of
\* that touch still match and its touchend with no touch remaining is emitted.
C34_ReconfigureKeepsGesture ==
    [][ (\E t \in ThrottlingOptions : SetThrottling(t))
            => trackingTouch' = trackingTouch ]_vars

\* C35: setting joystick.throttling on a disabled control registers no
\* listener and leaves the control disabled with nothing emitted; while the
\* control stays disabled no step starts a handler or emits; and the step
\* that enables it registers for touchmove exactly the moveHandler built for
\* the interval set last.
C35_DisabledReconfigure ==
    [][ /\ \A t \in ThrottlingOptions :
              (~isEnabled /\ SetThrottling(t))
                  => /\ ~isEnabled' /\ \A e \in EventTypes : listeners'[e] = {}
                     /\ throttling' = t /\ moveHandler' = MakeMoveHandler(t)
                     /\ pc' = "idle" /\ emitted' = <<>>
        /\ (~isEnabled /\ ~isEnabled')
              => (pc' = "idle" /\ emitted' = <<>> /\ listeners' = listeners)
        /\ (~isEnabled /\ isEnabled')
              => listeners'["touchmove"] = {MakeMoveHandler(throttling)} ]_vars

\* C35 witness: a disabled control whose interval is 150 while the reopen
\* timer of a move executed under the interval 100 is still pending and the
\* touch tracked before it was disabled is still recorded
C35_Witness ==
    /\ ~isEnabled /\ pc = "idle" /\ trackingTouch = 1
    /\ throttling = 150 /\ moveHandler = MakeMoveHandler(150)
    /\ timers = <<100>> /\ stale = 1 /\ ~shouldComputeMove
    /\ \A e \in EventTypes : listeners[e] = {}
====
